---- MODULE Spec2Model ----
(***************************************************************************)
(* A model of nsfs, an in-memory FUSE file system.  The engine (NsFS) owns *)
(* four tables -- attrs, nodes, open_files, files -- and two counters.     *)
(* The core functions are modelled from src/nsfs/mod.rs, the FUSE handlers *)
(* (lookup, setattr, mkdir, unlink, ...) from src/main.rs.                 *)
(***************************************************************************)
EXTENDS Integers, Sequences, FiniteSets, TLC

VARIABLES
    attrs,                    \* HashMap<INode, FileAttr>
    nodes,                    \* HashMap<INode, Node>
    iter_order,               \* iteration order of each node's children HashMap
    open_files,               \* HashMap<FileDescriptor, INode>
    files,                    \* HashMap<INode, File>
    current_inode,            \* u64
    current_file_descriptor,  \* u64
    now,                      \* last value returned by SystemTime::now()
    last,                     \* the last request and the reply it got
    client                    \* a client that appends to a file and reads it back

vars == <<attrs, nodes, iter_order, open_files, files, current_inode,
          current_file_descriptor, now, last, client>>

tables == <<attrs, nodes, open_files, files>>

----------------------------------------------------------------------------
(* Bounds of the model.                                                    *)

MaxInode == 3      \* current_inode never exceeds this
MaxFd == 3         \* current_file_descriptor never exceeds this
MaxClock == 1      \* SystemTime::now() ranges over 0..MaxClock
MaxLen == 3        \* buffers, offsets and read sizes range over 0..MaxLen
MaxData == 2       \* payload of one write has at most this many bytes
MaxByte == 1       \* bytes range over 0..MaxByte
MaxChunk == 2      \* chunk sizes of the chunked reader range over 1..MaxChunk

Names == {"a", "b"}
Inodes == 1..MaxInode
Fds == 0..MaxFd
Bytes == 0..MaxByte

----------------------------------------------------------------------------
(* Program constants.                                                      *)

ROOT == 1
NO_PARENT == 0
ENOENT == 2
EEXIST == 17
ENOSYS == 38
EOF == -1
PERM_ALL == 511
CURRENT_DIR == "."
PARENT_DIR == ".."
Directory == "Directory"
RegularFile == "RegularFile"

----------------------------------------------------------------------------
(* HashMap, Vec and Option.                                                *)

EmptyMap == [k \in {} |-> k]

Insert(m, k, v) == [x \in (DOMAIN m) \cup {k} |-> IF x = k THEN v ELSE m[x]]

Remove(m, k) == [x \in (DOMAIN m) \ {k} |-> m[x]]

None == [some |-> FALSE]

Some(v) == [some |-> TRUE, val |-> v]

Zeroes(n) == [i \in 1..n |-> 0]

SeqsUpTo(S, n) == UNION {[1..k -> S] : k \in 0..n}

Min(a, b) == IF a < b THEN a ELSE b

Max(a, b) == IF a > b THEN a ELSE b

\* every iteration order a HashMap holding the keys K may have
Orders(K) == {s \in [1..Cardinality(K) -> K] : \A k \in K : \E i \in DOMAIN s : s[i] = k}

\* the order left when key k is taken out of the order s
Without(s, k) == SelectSeq(s, LAMBDA x : x # k)

----------------------------------------------------------------------------
(* Node, File, FileAttr and the engine after NsFS::new().                  *)

\* new_directory that takes the kind of new_file
new_directory_as_file(index, parent, name) ==
    [index |-> index, parent |-> parent, name |-> name,
     children |-> EmptyMap, kind |-> RegularFile]

new_directory(index, parent, name) ==
    [index |-> index, parent |-> parent, name |-> name,
     children |-> EmptyMap, kind |-> Directory]

\* new_file that records no parent
new_file_orphan(index, parent, name) ==
    [index |-> index, parent |-> NO_PARENT, name |-> name,
     children |-> EmptyMap, kind |-> RegularFile]

new_file(index, parent, name) ==
    [index |-> index, parent |-> parent, name |-> name,
     children |-> EmptyMap, kind |-> RegularFile]

File_new == [data |-> <<>>]

\* FileAttr that leaves the change time at the epoch
FileAttr_no_ctime(ino, ts, kind, perm, flags) ==
    [ino |-> ino, size |-> 0, blocks |-> 0,
     atime |-> ts, mtime |-> ts, ctime |-> 0, crtime |-> ts,
     kind |-> kind, perm |-> perm, nlink |-> 0, uid |-> 0, gid |-> 0,
     rdev |-> 0, blksize |-> 0, flags |-> flags]

FileAttr(ino, ts, kind, perm, flags) ==
    [ino |-> ino, size |-> 0, blocks |-> 0,
     atime |-> ts, mtime |-> ts, ctime |-> ts, crtime |-> ts,
     kind |-> kind, perm |-> perm, nlink |-> 0, uid |-> 0, gid |-> 0,
     rdev |-> 0, blksize |-> 0, flags |-> flags]

Init ==
    /\ now = 0
    /\ attrs = Insert(EmptyMap, ROOT, FileAttr(ROOT, 0, Directory, 0, 0))
    /\ nodes = Insert(EmptyMap, ROOT,
                      [index |-> ROOT, parent |-> NO_PARENT, name |-> "/",
                       children |-> EmptyMap, kind |-> Directory])
    /\ iter_order = Insert(EmptyMap, ROOT, <<>>)
    /\ current_inode = 1
    /\ open_files = EmptyMap
    /\ files = EmptyMap
    /\ current_file_descriptor = 0
    /\ last = [op |-> "new", reply |-> [tag |-> "ok"]]
    /\ client = [state |-> "none", ino |-> 0, sent |-> <<>>, chunk |-> 0,
                 offset |-> 0, got |-> <<>>]

----------------------------------------------------------------------------
(* Results and replies.                                                    *)

Ok(v) == [ok |-> TRUE, val |-> v]

Err(e) == [ok |-> FALSE, err |-> e]

\* the thread unwinds out of the handler and the mount loop: the process ends
Panic == "Panic"

c_int_from(err) ==
    CASE err \in {"NotFound", "AttrsNotFound", "FileNotFound"} -> ENOENT
      [] err = "EOF" -> EOF
      [] err = "AlreadyExists" -> EEXIST

ReplyError(code) == [tag |-> "error", code |-> code]

ReplyPanic == [tag |-> "panic"]

\* what a handler replies for a failed core call
ReplyErr(err) == IF err = Panic THEN ReplyPanic ELSE ReplyError(c_int_from(err))

Running == last.reply.tag # "panic"

----------------------------------------------------------------------------
(* The core: src/nsfs/mod.rs.                                              *)

\* next_inode that hands out the lowest number no attribute record has
next_inode_lowest_free ==
    CHOOSE i \in 1..(current_inode + 1) :
        /\ i \notin DOMAIN attrs
        /\ \A j \in 1..(i - 1) : j \in DOMAIN attrs

next_inode == current_inode + 1

\* open_file that hands out the lowest descriptor not in the table
open_file_lowest_free(ino, of, cfd) ==
    LET fd == CHOOSE h \in 0..cfd : h \notin DOMAIN of /\ \A g \in 0..(h - 1) : g \in DOMAIN of
    IN  [fd |-> fd, open_files |-> Insert(of, fd, ino), current_file_descriptor |-> cfd + 1]

\* the descriptor handed out, the table and the counter after open_file(ino)
open_file(ino, of, cfd) ==
    [fd |-> cfd, open_files |-> Insert(of, cfd, ino), current_file_descriptor |-> cfd + 1]

find_node(parent, name) ==
    IF parent \notin DOMAIN nodes THEN Err("NotFound")
    ELSE IF name \notin DOMAIN nodes[parent].children THEN Err("NotFound")
    ELSE Ok(nodes[parent].children[name])

get_attr(ino) ==
    IF ino \in DOMAIN attrs THEN Ok(attrs[ino]) ELSE Err("AttrsNotFound")

\* read_eof with the comparison off by one
read_eof_strict(offset, len) == offset > len

\* `if offset >= file.data.len() { return Err(Error::EOF) }`
read_eof(offset, len) == offset >= len

\* `if offset + size >= file.data.len() { size = file.data.len() - offset }`
read_clip(size, offset, len) ==
    IF offset + size >= len THEN len - offset ELSE size

\* the end-of-file test, the clipping and the slice of read_file
read_data(data, size, offset) ==
    IF read_eof(offset, Len(data)) THEN Err("EOF")
    ELSE LET size1 == read_clip(size, offset, Len(data))
         IN  Ok(SubSeq(data, offset + 1, offset + size1))

\* the result, the attribute table and the clock after read_file; t is what
\* SystemTime::now() returns if it is called.  atime is set before the
\* end-of-file test.
read_file(ino, size, offset, t) ==
    IF ino \notin DOMAIN files
    THEN [res |-> Err("FileNotFound"), attrs |-> attrs, now |-> now]
    ELSE IF ino \notin DOMAIN attrs
    THEN [res |-> Err("AttrsNotFound"), attrs |-> attrs, now |-> now]
    ELSE [res |-> read_data(files[ino].data, size, offset),
          attrs |-> [attrs EXCEPT ![ino].atime = t], now |-> t]

\* `if offset >= data.len()`: the guard of the zero fill
write_extends(offset, dlen, flen) == offset >= dlen

\* The buffer after the zero fill and the splice of write_file, or Panic.
\* `offset - file.data.len()` underflows when offset < file.data.len(): a
\* build with overflow checks panics on the subtraction; a build without
\* wraps to 2^64 - (len - offset), and Vec::extend of that many items
\* panics with a capacity overflow.  Vec::splice panics when the start of
\* its range is past the end of the vector.
write_data(buf, data, offset) ==
    LET extend == write_extends(offset, Len(data), Len(buf))
    IN  IF extend /\ offset < Len(buf) THEN Err(Panic)
        ELSE LET buf1 == IF extend THEN buf \o Zeroes(offset - Len(buf)) ELSE buf
             IN  IF offset + Len(data) > Len(buf1)
                 THEN IF offset > Len(buf1) THEN Err(Panic)
                      ELSE Ok(SubSeq(buf1, 1, offset) \o data)
                 ELSE Ok(SubSeq(buf1, 1, offset) \o data
                           \o SubSeq(buf1, offset + Len(data) + 1, Len(buf1)))

\* write_attrs without the refresh of the size
write_attrs_stale(attr, len, t) == [attr EXCEPT !.atime = t, !.mtime = t]

\* `attrs.atime = now; attrs.mtime = now; attrs.size = file.data.len()`
write_attrs(attr, len, t) == [attr EXCEPT !.atime = t, !.mtime = t, !.size = len]

write_file(ino, data, offset, t) ==
    IF ino \notin DOMAIN files
    THEN [res |-> Err("FileNotFound"), files |-> files, attrs |-> attrs, now |-> now]
    ELSE IF ino \notin DOMAIN attrs
    THEN [res |-> Err("AttrsNotFound"), files |-> files, attrs |-> attrs, now |-> now]
    ELSE LET w == write_data(files[ino].data, data, offset)
         IN  IF ~w.ok
             THEN [res |-> w, files |-> files, attrs |-> attrs, now |-> now]
             ELSE [res |-> Ok(Len(data)),
                   files |-> [files EXCEPT ![ino].data = w.val],
                   attrs |-> [attrs EXCEPT ![ino] = write_attrs(@, Len(w.val), t)],
                   now |-> t]

\* the iteration orders the children of parent may have once name is a key
insert_orders(parent, name) ==
    IF parent \in DOMAIN nodes
    THEN Orders((DOMAIN nodes[parent].children) \cup {name})
    ELSE {<<>>}

\* create_file_check without the test for an existing child
create_file_check_replace(parent, name) ==
    IF parent \notin DOMAIN nodes THEN Err("NotFound")
    ELSE Ok(next_inode)

\* create_file up to its two early returns: the inode number is taken first
create_file_check(parent, name) ==
    IF parent \notin DOMAIN nodes THEN Err("NotFound")
    ELSE IF name \in DOMAIN nodes[parent].children THEN Err("AlreadyExists")
    ELSE Ok(next_inode)

\* the attribute record and the descriptor create_file returns, and the
\* engine after it; ts is what SystemTime::now() returns, ord the iteration
\* order of the parent's children after the insertion
create_file(parent, name, flags, ts, ord) ==
    LET c == create_file_check(parent, name)
        ino == next_inode
    IN  IF ~c.ok
        THEN [res |-> c, attrs |-> attrs, files |-> files, nodes |-> nodes,
              iter_order |-> iter_order, open_files |-> open_files,
              current_file_descriptor |-> current_file_descriptor, now |-> now]
        ELSE LET attrs1 == Insert(attrs, ino, FileAttr(ino, ts, RegularFile, PERM_ALL, flags))
                 o == open_file(ino, open_files, current_file_descriptor)
             IN  [res |-> Ok([attr |-> attrs1[ino], fh |-> o.fd]),
                  attrs |-> attrs1,
                  files |-> Insert(files, ino, File_new),
                  nodes |-> [nodes EXCEPT ![parent].children =
                                 Insert(@, name, new_file(ino, parent, name))],
                  iter_order |-> [iter_order EXCEPT ![parent] = ord],
                  open_files |-> o.open_files,
                  current_file_descriptor |-> o.current_file_descriptor,
                  now |-> ts]

----------------------------------------------------------------------------
(* The FUSE handlers: src/main.rs, impl Filesystem for NsFS.               *)

lookup(parent, name) ==
    /\ Running
    /\ LET f == find_node(parent, name)
       IN  last' = [op |-> "lookup", parent |-> parent, name |-> name,
                    reply |-> IF ~f.ok THEN ReplyErr(f.err)
                              ELSE IF f.val.index \notin DOMAIN attrs THEN ReplyPanic
                              ELSE [tag |-> "entry", attr |-> attrs[f.val.index]]]
    /\ UNCHANGED <<attrs, nodes, iter_order, open_files, files, current_inode,
                   current_file_descriptor, now>>

getattr(ino) ==
    /\ Running
    /\ LET a == get_attr(ino)
       IN  last' = [op |-> "getattr", ino |-> ino,
                    reply |-> IF a.ok THEN [tag |-> "attr", attr |-> a.val]
                              ELSE ReplyErr(a.err)]
    /\ UNCHANGED <<attrs, nodes, iter_order, open_files, files, current_inode,
                   current_file_descriptor, now>>

\* TimeOrNow: the time an Option<TimeOrNow> argument stores, given what
\* SystemTime::now() returns
time_of(ton, t) == IF ton.val.tag = "Now" THEN t ELSE ton.val.time

Now == [tag |-> "Now"]

SpecificTime(x) == [tag |-> "SpecificTime", time |-> x]

\* the attribute record after the assignments of setattr; t1 and t2 are what
\* the two calls of SystemTime::now() return
setattr_file(file, req, t1, t2) ==
    [file EXCEPT
        !.uid = IF req.uid.some THEN req.uid.val ELSE @,
        !.gid = IF req.gid.some THEN req.gid.val ELSE @,
        !.size = IF req.size.some THEN req.size.val ELSE @,
        !.atime = IF req.atime.some THEN time_of(req.atime, t1) ELSE @,
        !.mtime = IF req.mtime.some THEN time_of(req.mtime, t2) ELSE @,
        !.crtime = IF req.crtime.some THEN req.crtime.val ELSE @]

\* the clock after setattr: it is read once for each argument that is Now
setattr_now(req, t1, t2) ==
    IF req.mtime.some /\ req.mtime.val.tag = "Now" THEN t2
    ELSE IF req.atime.some /\ req.atime.val.tag = "Now" THEN t1
    ELSE now

setattr(ino, req, t1, t2) ==
    /\ Running
    /\ IF ino \notin DOMAIN attrs
       THEN /\ last' = [op |-> "setattr", ino |-> ino, req |-> req,
                        reply |-> ReplyError(ENOENT)]
            /\ UNCHANGED <<attrs, now>>
       ELSE /\ attrs' = [attrs EXCEPT ![ino] = setattr_file(@, req, t1, t2)]
            /\ now' = setattr_now(req, t1, t2)
            /\ last' = [op |-> "setattr", ino |-> ino, req |-> req,
                        reply |-> [tag |-> "attr", attr |-> attrs'[ino]]]
    /\ UNCHANGED <<nodes, iter_order, open_files, files, current_inode,
                   current_file_descriptor>>

mkdir(parent, name, ts, ord) ==
    /\ Running
    /\ current_inode < MaxInode
    /\ current_inode' = next_inode
    /\ LET ino == next_inode
       IN  IF parent \notin DOMAIN nodes
           THEN /\ last' = [op |-> "mkdir", parent |-> parent, name |-> name,
                            reply |-> ReplyError(ENOENT)]
                /\ UNCHANGED <<attrs, nodes, iter_order, now>>
           ELSE IF name \in DOMAIN nodes[parent].children
           THEN /\ last' = [op |-> "mkdir", parent |-> parent, name |-> name,
                            reply |-> ReplyError(EEXIST)]
                /\ UNCHANGED <<attrs, nodes, iter_order, now>>
           ELSE /\ attrs' = Insert(attrs, ino, FileAttr(ino, ts, Directory, PERM_ALL, 0))
                /\ nodes' = [nodes EXCEPT ![parent].children =
                                Insert(@, name, new_directory(ino, parent, name))]
                /\ iter_order' = [iter_order EXCEPT ![parent] = ord]
                /\ now' = ts
                /\ last' = [op |-> "mkdir", parent |-> parent, name |-> name,
                            reply |-> [tag |-> "entry", attr |-> attrs'[ino]]]
    /\ UNCHANGED <<open_files, files, current_file_descriptor>>

\* unlink that drops the records of the victim but leaves its name in the parent
unlink_keep_name(parent, name) ==
    /\ Running
    /\ IF parent \notin DOMAIN nodes \/ name \notin DOMAIN nodes[parent].children
       THEN /\ last' = [op |-> "unlink", parent |-> parent, name |-> name,
                        reply |-> ReplyError(ENOENT)]
            /\ UNCHANGED <<attrs, nodes, iter_order, open_files>>
       ELSE LET victim == nodes[parent].children[name]
            IN  /\ attrs' = Remove(attrs, victim.index)
                /\ nodes' = Remove(nodes, victim.index)
                /\ iter_order' = Remove(iter_order, victim.index)
                /\ open_files' = Remove(open_files, victim.index)
                /\ last' = [op |-> "unlink", parent |-> parent, name |-> name,
                            reply |-> [tag |-> "ok"]]
    /\ UNCHANGED <<files, current_inode, current_file_descriptor, now>>

unlink(parent, name) ==
    /\ Running
    /\ IF parent \notin DOMAIN nodes \/ name \notin DOMAIN nodes[parent].children
       THEN /\ last' = [op |-> "unlink", parent |-> parent, name |-> name,
                        reply |-> ReplyError(ENOENT)]
            /\ UNCHANGED <<attrs, nodes, iter_order, open_files>>
       ELSE LET victim == nodes[parent].children[name]
                nodes1 == [nodes EXCEPT ![parent].children = Remove(@, name)]
                order1 == [iter_order EXCEPT ![parent] = Without(@, name)]
            IN  /\ attrs' = Remove(attrs, victim.index)
                /\ nodes' = Remove(nodes1, victim.index)
                /\ iter_order' = Remove(order1, victim.index)
                /\ open_files' = Remove(open_files, victim.index)
                /\ last' = [op |-> "unlink", parent |-> parent, name |-> name,
                            reply |-> [tag |-> "ok"]]
    /\ UNCHANGED <<files, current_inode, current_file_descriptor, now>>

\* unsupported that replies as if the name were missing
unsupported_as_missing(op) ==
    /\ Running
    /\ last' = [op |-> op, reply |-> ReplyError(ENOENT)]
    /\ UNCHANGED <<attrs, nodes, iter_order, open_files, files, current_inode,
                   current_file_descriptor, now>>

\* rmdir, symlink, rename and link reply ENOSYS whatever their arguments
unsupported(op) ==
    /\ Running
    /\ last' = [op |-> op, reply |-> ReplyError(ENOSYS)]
    /\ UNCHANGED <<attrs, nodes, iter_order, open_files, files, current_inode,
                   current_file_descriptor, now>>

rmdir(parent, name) == unsupported("rmdir")

symlink(parent, name) == unsupported("symlink")

rename(parent, name, newparent, newname) == unsupported("rename")

link(ino, newparent, newname) == unsupported("link")

open(ino, flags) ==
    /\ Running
    /\ current_file_descriptor < MaxFd
    /\ LET o == open_file(ino, open_files, current_file_descriptor)
       IN  /\ open_files' = o.open_files
           /\ current_file_descriptor' = o.current_file_descriptor
           /\ last' = [op |-> "open", ino |-> ino,
                       reply |-> [tag |-> "opened", fh |-> o.fd, flags |-> flags]]
    /\ UNCHANGED <<attrs, nodes, iter_order, files, current_inode, now>>

read(ino, offset, size, t) ==
    /\ Running
    /\ LET r == read_file(ino, size, offset, t)
       IN  /\ attrs' = r.attrs
           /\ now' = r.now
           /\ last' = [op |-> "read", ino |-> ino, offset |-> offset, size |-> size,
                       reply |-> IF r.res.ok THEN [tag |-> "data", data |-> r.res.val]
                                 ELSE ReplyErr(r.res.err)]
    /\ UNCHANGED <<nodes, iter_order, open_files, files, current_inode,
                   current_file_descriptor>>

write(ino, offset, data, t) ==
    /\ Running
    /\ LET w == write_file(ino, data, offset, t)
       IN  /\ files' = w.files
           /\ attrs' = w.attrs
           /\ now' = w.now
           /\ last' = [op |-> "write", ino |-> ino, offset |-> offset, data |-> data,
                       reply |-> IF w.res.ok THEN [tag |-> "written", size |-> w.res.val]
                                 ELSE ReplyErr(w.res.err)]
    /\ UNCHANGED <<nodes, iter_order, open_files, current_inode,
                   current_file_descriptor>>

\* release that drops every handle of the inode the handle maps to
release_inode(fh) ==
    /\ Running
    /\ open_files' = IF fh \notin DOMAIN open_files THEN open_files
                     ELSE [h \in {g \in DOMAIN open_files : open_files[g] # open_files[fh]}
                               |-> open_files[h]]
    /\ last' = [op |-> "release", fh |-> fh, reply |-> [tag |-> "ok"]]
    /\ UNCHANGED <<attrs, nodes, iter_order, files, current_inode,
                   current_file_descriptor, now>>

release(fh) ==
    /\ Running
    /\ open_files' = Remove(open_files, fh)
    /\ last' = [op |-> "release", fh |-> fh, reply |-> [tag |-> "ok"]]
    /\ UNCHANGED <<attrs, nodes, iter_order, files, current_inode,
                   current_file_descriptor, now>>

\* the entries readdir collects before it skips to the offset
readdir_entries(ino) ==
    LET node == nodes[ino]
        dot == <<[ino |-> ino, kind |-> Directory, name |-> CURRENT_DIR]>>
        dotdot == IF node.parent # 0
                  THEN <<[ino |-> node.parent, kind |-> Directory, name |-> PARENT_DIR]>>
                  ELSE <<>>
        kids == [i \in 1..Len(iter_order[ino]) |->
                    LET c == node.children[iter_order[ino][i]]
                    IN  [ino |-> c.index, kind |-> c.kind, name |-> c.name]]
    IN  dot \o dotdot \o kids

\* `ret.iter().skip(offset).enumerate()`: each entry with the offset of the next
readdir_reply(ret, offset) ==
    [i \in 1..Max(0, Len(ret) - offset) |->
        [ino |-> ret[offset + i].ino, offset |-> offset + (i - 1) + 1,
         kind |-> ret[offset + i].kind, name |-> ret[offset + i].name]]

readdir(ino, offset) ==
    /\ Running
    /\ last' = [op |-> "readdir", ino |-> ino, offset |-> offset,
                reply |-> IF ino \notin DOMAIN nodes THEN ReplyError(ENOENT)
                          ELSE [tag |-> "dir",
                                entries |-> readdir_reply(readdir_entries(ino), offset)]]
    /\ UNCHANGED <<attrs, nodes, iter_order, open_files, files, current_inode,
                   current_file_descriptor, now>>

\* create that takes an inode number only once the checks have passed
create_check_first(parent, name, flags, ts, ord) ==
    /\ Running
    /\ current_inode < MaxInode
    /\ current_file_descriptor < MaxFd
    /\ LET c == create_file(parent, name, flags, ts, ord)
       IN  /\ current_inode' = IF c.res.ok THEN next_inode ELSE current_inode
           /\ attrs' = c.attrs
           /\ files' = c.files
           /\ nodes' = c.nodes
           /\ iter_order' = c.iter_order
           /\ open_files' = c.open_files
           /\ current_file_descriptor' = c.current_file_descriptor
           /\ now' = c.now
           /\ last' = [op |-> "create", parent |-> parent, name |-> name,
                       reply |-> IF c.res.ok
                                 THEN [tag |-> "created", attr |-> c.res.val.attr,
                                       fh |-> c.res.val.fh, flags |-> flags]
                                 ELSE ReplyErr(c.res.err)]

create(parent, name, flags, ts, ord) ==
    /\ Running
    /\ current_inode < MaxInode
    /\ current_file_descriptor < MaxFd
    /\ current_inode' = next_inode
    /\ LET c == create_file(parent, name, flags, ts, ord)
       IN  /\ attrs' = c.attrs
           /\ files' = c.files
           /\ nodes' = c.nodes
           /\ iter_order' = c.iter_order
           /\ open_files' = c.open_files
           /\ current_file_descriptor' = c.current_file_descriptor
           /\ now' = c.now
           /\ last' = [op |-> "create", parent |-> parent, name |-> name,
                       reply |-> IF c.res.ok
                                 THEN [tag |-> "created", attr |-> c.res.val.attr,
                                       fh |-> c.res.val.fh, flags |-> flags]
                                 ELSE ReplyErr(c.res.err)]

----------------------------------------------------------------------------
(* The requests of the kernel adapter.                                     *)

\* setattr as chown, truncate, utimens and the macOS setcrtime issue it
NoChange == [uid |-> None, gid |-> None, size |-> None,
             atime |-> None, mtime |-> None, crtime |-> None]

Chown == {[NoChange EXCEPT !.uid = Some(1), !.gid = Some(1)]}

Truncate(sizes) == {[NoChange EXCEPT !.size = Some(n)] : n \in sizes}

Utimens == {[NoChange EXCEPT !.atime = Some(a), !.mtime = Some(m)] :
               a \in {Now, SpecificTime(0)}, m \in {Now}}

SetCrtime == {[NoChange EXCEPT !.crtime = Some(0)]}

----------------------------------------------------------------------------
(* Spec: the name space and the handle table.  Every request of the        *)
(* adapter, with one-byte payloads and a clock that stands still.          *)

\* a request of the kernel adapter: the client below is not involved
Adapter(handler) == handler /\ UNCHANGED client

NsInodes == Inodes
NsParents == {ROOT, 2}
NsOffsets == {0, 1}

Next ==
    \/ \E parent \in NsParents, name \in Names : Adapter(lookup(parent, name))
    \/ \E ino \in NsInodes : Adapter(getattr(ino))
    \/ \E parent \in NsParents, name \in Names :
           \E ord \in insert_orders(parent, name) : Adapter(mkdir(parent, name, now, ord))
    \/ \E parent \in NsParents, name \in Names : Adapter(unlink(parent, name))
    \/ \E parent \in NsParents, name \in Names : Adapter(rmdir(parent, name))
    \/ \E parent \in NsParents, name \in Names : Adapter(symlink(parent, name))
    \/ \E parent, newparent \in NsParents, name, newname \in Names :
           Adapter(rename(parent, name, newparent, newname))
    \/ \E ino \in NsInodes, newparent \in NsParents, newname \in Names :
           Adapter(link(ino, newparent, newname))
    \/ \E ino \in NsInodes : Adapter(open(ino, 0))
    \/ \E ino \in NsInodes : Adapter(read(ino, 0, 1, now))
    \/ \E ino \in NsInodes : Adapter(write(ino, 0, <<1>>, now))
    \/ \E fh \in Fds : Adapter(release(fh))
    \/ \E ino \in NsInodes, offset \in NsOffsets : Adapter(readdir(ino, offset))
    \/ \E parent \in NsParents, name \in Names :
           \E ord \in insert_orders(parent, name) : Adapter(create(parent, name, 0, now, ord))

Spec == Init /\ [][Next]_vars

----------------------------------------------------------------------------
(* SpecIO: the content of one file.  create, read and write with every     *)
(* payload, offset and size up to the bounds; the clock stands still.      *)

IoInodes == {2}
Payloads == SeqsUpTo(Bytes, MaxData)
Offsets == 0..MaxLen
Sizes == 0..MaxLen

NextIO ==
    \/ Adapter(create(ROOT, "a", 0, now, <<"a">>))
    \/ \E ino \in IoInodes, offset \in Offsets, size \in Sizes :
           Adapter(read(ino, offset, size, now))
    \/ \E ino \in IoInodes, offset \in Offsets, data \in Payloads :
           /\ offset + Len(data) <= MaxLen
           /\ Adapter(write(ino, offset, data, now))

SpecIO == Init /\ [][NextIO]_vars

----------------------------------------------------------------------------
(* SpecAttr: the attribute record of one file.  create, getattr, setattr,  *)
(* read and write, with a clock that advances.                             *)

\* what SystemTime::now() may return, if the request reads the clock at all
Clock(reads) == IF reads THEN now..MaxClock ELSE {now}

AttrRequests == Chown \cup Truncate({0, 1}) \cup Utimens \cup SetCrtime \cup {NoChange}

NextAttr ==
    \/ \E ts \in now..MaxClock : Adapter(create(ROOT, "a", 0, ts, <<"a">>))
    \/ \E ino \in IoInodes : Adapter(getattr(ino))
    \/ \E ino \in IoInodes, req \in AttrRequests :
           \E t1 \in Clock(req.atime = Some(Now)) :
               \E t2 \in t1..(IF req.mtime = Some(Now) THEN MaxClock ELSE t1) :
                   Adapter(setattr(ino, req, t1, t2))
    \/ \E ino \in IoInodes, offset \in {0, 1} :
           \E t \in Clock(ino \in DOMAIN files /\ ino \in DOMAIN attrs) :
               Adapter(read(ino, offset, 1, t))
    \/ \E ino \in IoInodes, offset \in {0, 1} :
           \E t \in Clock(ino \in DOMAIN files /\ ino \in DOMAIN attrs) :
               Adapter(write(ino, offset, <<1>>, t))

SpecAttr == Init /\ [][NextAttr]_vars

----------------------------------------------------------------------------
(* SpecAppend: a client creates a file, appends to it, each write at the   *)
(* offset that is the length of the buffer, and then reads it back in      *)
(* chunks, advancing its offset by what each read returns, until a read    *)
(* reports the end of the file.                                            *)

ClientCreate(name, ts) ==
    /\ client.state = "none"
    /\ create(ROOT, name, 0, ts, <<name>>)
    /\ client' = IF last'.reply.tag = "created"
                 THEN [client EXCEPT !.state = "writing", !.ino = last'.reply.attr.ino]
                 ELSE client

ClientAppend(data, t) ==
    /\ client.state = "writing"
    /\ Len(files[client.ino].data) + Len(data) <= MaxLen
    /\ write(client.ino, Len(files[client.ino].data), data, t)
    /\ client' = [client EXCEPT !.sent = @ \o data]

ClientStartRead(chunk) ==
    /\ client.state = "writing"
    /\ Running
    /\ client' = [client EXCEPT !.state = "reading", !.chunk = chunk,
                                !.offset = 0, !.got = <<>>]
    /\ UNCHANGED <<attrs, nodes, iter_order, open_files, files, current_inode,
                   current_file_descriptor, now, last>>

ClientRead(t) ==
    /\ client.state = "reading"
    /\ read(client.ino, client.offset, client.chunk, t)
    /\ client' = IF last'.reply.tag = "data"
                 THEN [client EXCEPT !.got = @ \o last'.reply.data,
                                     !.offset = @ + Len(last'.reply.data)]
                 ELSE IF last'.reply = ReplyError(EOF)
                 THEN [client EXCEPT !.state = "done"]
                 ELSE [client EXCEPT !.state = "failed"]

ClientReads == \E t \in now..MaxClock : ClientRead(t)

NextAppend ==
    \/ \E name \in Names, ts \in now..MaxClock : ClientCreate(name, ts)
    \/ \E data \in Payloads, t \in now..MaxClock : ClientAppend(data, t)
    \/ \E chunk \in 1..MaxChunk : ClientStartRead(chunk)
    \/ ClientReads

\* the client is a loop: it goes on reading until it is done
SpecAppend == Init /\ [][NextAppend]_vars /\ WF_vars(ClientReads)

(* SpecTree: the name space alone.  Lookups, listings and every request    *)
(* that creates or removes a name, with a clock that stands still.         *)

NextTree ==
    \/ \E parent \in NsParents, name \in Names : Adapter(lookup(parent, name))
    \/ \E ino \in NsInodes : Adapter(getattr(ino))
    \/ \E parent \in NsParents, name \in Names :
           \E ord \in insert_orders(parent, name) : Adapter(mkdir(parent, name, now, ord))
    \/ \E parent \in NsParents, name \in Names : Adapter(unlink(parent, name))
    \/ \E parent \in NsParents, name \in Names : Adapter(rmdir(parent, name))
    \/ \E parent \in NsParents, name \in Names : Adapter(symlink(parent, name))
    \/ \E parent, newparent \in NsParents, name, newname \in Names :
           Adapter(rename(parent, name, newparent, newname))
    \/ \E ino \in NsInodes, newparent \in NsParents, newname \in Names :
           Adapter(link(ino, newparent, newname))
    \/ \E ino \in NsInodes, offset \in NsOffsets : Adapter(readdir(ino, offset))
    \/ \E parent \in NsParents, name \in Names :
           \E ord \in insert_orders(parent, name) : Adapter(create(parent, name, 0, now, ord))

SpecTree == Init /\ [][NextTree]_vars

(* SpecHandles: objects in the root and the handles on them.  Creating,    *)
(* opening, writing one byte, releasing and unlinking, with a clock that   *)
(* advances so that a new file's timestamps are not all the initial one.   *)

HdInodes == {2}

NextHandles ==
    \/ \E name \in Names, ts \in now..MaxClock :
           \E ord \in insert_orders(ROOT, name) : Adapter(create(ROOT, name, 0, ts, ord))
    \/ \E name \in Names :
           \E ord \in insert_orders(ROOT, name) : Adapter(mkdir(ROOT, name, now, ord))
    \/ \E name \in Names : Adapter(unlink(ROOT, name))
    \/ \E ino \in HdInodes : Adapter(open(ino, 0))
    \/ \E ino \in HdInodes : Adapter(write(ino, 0, <<1>>, now))
    \/ \E fh \in Fds : Adapter(release(fh))

SpecHandles == Init /\ [][NextHandles]_vars

(* SpecRemove: the content of a file that is unlinked and created again.   *)
(* create and unlink of one name, read and write of the two numbers the    *)
(* name can get, with every payload and offset up to the bounds.           *)

RmInodes == {2, 3}

NextRemove ==
    \/ Adapter(create(ROOT, "a", 0, now, <<"a">>))
    \/ Adapter(unlink(ROOT, "a"))
    \/ \E ino \in RmInodes, offset \in Offsets, size \in Sizes :
           Adapter(read(ino, offset, size, now))
    \/ \E ino \in RmInodes, offset \in Offsets, data \in Payloads :
           /\ offset + Len(data) <= MaxLen
           /\ Adapter(write(ino, offset, data, now))

SpecRemove == Init /\ [][NextRemove]_vars

----------------------------------------------------------------------------
(* What the claims are about.                                              *)

HasContent(ino) == ino \in DOMAIN files /\ ino \in DOMAIN attrs

\* this step is an unlink of (parent, name) that replied ok
Unlinked(parent, name) ==
    /\ last'.op = "unlink"
    /\ last'.reply.tag = "ok"
    /\ last'.parent = parent
    /\ last'.name = name
    /\ parent \in DOMAIN nodes
    /\ name \in DOMAIN nodes[parent].children

\* this step is a write to an inode that has a buffer and an attribute record
Wrote(ino) == last'.op = "write" /\ last'.ino = ino /\ HasContent(ino)

\* this step is a read of an inode that has a buffer and an attribute record
Read(ino) == last'.op = "read" /\ last'.ino = ino /\ HasContent(ino)

----------------------------------------------------------------------------
(* C1: in every reachable state, every regular file that has a content     *)
(* buffer and an attribute record has a size attribute equal to the length *)
(* of its buffer, also after setattr with a size.                          *)
C1_SizeIsBufferLength ==
    \A ino \in DOMAIN files :
        (ino \in DOMAIN attrs /\ attrs[ino].kind = RegularFile)
            => attrs[ino].size = Len(files[ino].data)

(* C2: after a successful unlink(parent, name) that removed inode i, name  *)
(* is no child of parent, and i has no attribute record and no content     *)
(* buffer.                                                                 *)
C2_UnlinkRemovesRecords ==
    [][\A parent \in NsParents, name \in Names :
          Unlinked(parent, name) =>
              LET i == nodes[parent].children[name].index
              IN  /\ name \notin DOMAIN nodes'[parent].children
                  /\ i \notin DOMAIN attrs'
                  /\ i \notin DOMAIN files']_vars

(* C3: after a successful unlink that removed inode i, no handle of the    *)
(* open-handle table is mapped to i.                                       *)
C3_UnlinkRemovesHandles ==
    [][\A parent \in NsParents, name \in Names :
          Unlinked(parent, name) =>
              LET i == nodes[parent].children[name].index
              IN  \A fh \in DOMAIN open_files' : open_files'[fh] # i]_vars

(* C4: a request that is answered with an error leaves the attribute       *)
(* table (timestamps included), the tree, the content store and the        *)
(* open-handle table as they were.                                         *)
C4_ErrorLeavesTables ==
    [][last'.reply.tag = "error" => tables' = tables]_vars

(* C5: no request aborts the engine: every request is answered with a      *)
(* value or a typed error, none panics.                                    *)
C5_NoPanic == last.reply.tag # "panic"

(* C6: a write of M bytes at an offset N <= L into a buffer of length L    *)
(* succeeds, puts the data at [N, N+M), leaves the bytes before N and the  *)
(* old bytes from N+M on as they were, and leaves the length max(L, N+M).  *)
C6_WriteInside ==
    [][\A ino \in IoInodes :
          (Wrote(ino) /\ last'.offset <= Len(files[ino].data)) =>
              LET old == files[ino].data
                  new == files'[ino].data
                  N == last'.offset
                  M == Len(last'.data)
              IN  /\ last'.reply = [tag |-> "written", size |-> M]
                  /\ Len(new) = Max(Len(old), N + M)
                  /\ \A k \in 1..M : new[N + k] = last'.data[k]
                  /\ \A k \in 1..N : new[k] = old[k]
                  /\ \A k \in (N + M + 1)..Len(old) : new[k] = old[k]]_vars

(* C7: a write at an offset past the end of a buffer of length L succeeds, *)
(* fills [L, offset) with zero bytes, puts the data at the offset, leaves  *)
(* [0, L) as it was and makes the buffer length and the size attribute     *)
(* offset + data.len(); a read of the gap then returns zero bytes.         *)
C7_WritePastEnd ==
    [][\A ino \in IoInodes :
          (Wrote(ino) /\ last'.offset > Len(files[ino].data)) =>
              LET old == files[ino].data
                  new == files'[ino].data
                  N == last'.offset
                  M == Len(last'.data)
              IN  /\ last'.reply = [tag |-> "written", size |-> M]
                  /\ Len(new) = N + M
                  /\ attrs'[ino].size = N + M
                  /\ \A k \in 1..Len(old) : new[k] = old[k]
                  /\ \A k \in (Len(old) + 1)..N : new[k] = 0
                  /\ \A k \in 1..M : new[N + k] = last'.data[k]
                  /\ read_data(new, N - Len(old), Len(old)) = Ok(Zeroes(N - Len(old)))]_vars

(* C8: round trip: after any write of non-empty data to a file, a read of  *)
(* data.len() bytes at the offset of that write returns exactly the data.  *)
C8_RoundTrip ==
    [][\A ino \in IoInodes :
          (Wrote(ino) /\ last'.data # <<>>) =>
              /\ last'.reply.tag = "written"
              /\ read_data(files'[ino].data, Len(last'.data), last'.offset)
                     = Ok(last'.data)]_vars

(* C9: appends to a fresh file, each at the offset that is the buffer      *)
(* length, all succeed; the buffer is the concatenation of the data and    *)
(* the size attribute its length; reading in chunks until end-of-file      *)
(* terminates and rebuilds the buffer.                                     *)
AppendsHold ==
    client.state # "none" =>
        /\ Running
        /\ client.state # "failed"
        /\ HasContent(client.ino)
        /\ files[client.ino].data = client.sent
        /\ attrs[client.ino].size = Len(client.sent)
        /\ client.state = "done" => client.got = client.sent

C9_AppendAndReadBack ==
    /\ []AppendsHold
    /\ (client.state = "reading") ~> (client.state = "done")

\* the client has read back, in more than one chunk, what it sent in more
\* than one write
C9_Witness ==
    /\ client.state = "done"
    /\ Len(client.sent) = MaxLen
    /\ client.got = client.sent
    /\ client.chunk < MaxLen

(* C10: read of an inode with a buffer of length L and an attribute record *)
(* fails with end-of-file exactly when offset >= L; otherwise it returns   *)
(* the bytes at [offset, min(offset+size, L)); it never changes the buffer.*)
C10_Read ==
    [][\A ino \in IoInodes :
          Read(ino) =>
              LET buf == files[ino].data
                  off == last'.offset
                  n == Min(last'.size, Len(buf) - off)
              IN  /\ (last'.reply = ReplyError(EOF)) <=> (off >= Len(buf))
                  /\ off < Len(buf) =>
                         last'.reply = [tag |-> "data",
                                        data |-> [k \in 1..n |-> buf[off + k]]]
                  /\ files' = files]_vars

\* a read that ran past the end got fewer bytes than it asked for
C10_Witness ==
    /\ last.op = "read"
    /\ last.reply.tag = "data"
    /\ last.reply.data # <<>>
    /\ Len(last.reply.data) < last.size

----------------------------------------------------------------------------
\* this step is a create or a mkdir of a name its parent already holds
Collides ==
    /\ last'.op \in {"create", "mkdir"}
    /\ last'.parent \in DOMAIN nodes
    /\ last'.name \in DOMAIN nodes[last'.parent].children

(* C11: a create or a mkdir of a name that is already a child of the       *)
(* parent, file or directory, replies EEXIST and leaves the attribute      *)
(* table, the tree, the content store, the handle table and the handle     *)
(* counter as they were: the existing object keeps its inode, kind,        *)
(* attribute record, bytes and handles, and nothing new is recorded.       *)
C11_CollisionFails ==
    [][Collides =>
           /\ last'.reply = ReplyError(EEXIST)
           /\ tables' = tables
           /\ iter_order' = iter_order
           /\ current_file_descriptor' = current_file_descriptor]_vars

\* a create was refused over a file that has bytes and an open handle
C11_Witness ==
    /\ last.op = "create"
    /\ last.reply = ReplyError(EEXIST)
    /\ LET child == nodes[last.parent].children[last.name]
       IN  /\ child.kind = RegularFile
           /\ Len(files[child.index].data) > 0
           /\ \E fh \in DOMAIN open_files : open_files[fh] = child.index

----------------------------------------------------------------------------
\* find_node(parent, name) fails with NotFound
Absent(parent, name) == find_node(parent, name) = Err("NotFound")

\* this step is a create or a mkdir of (parent, name) that succeeded
Created(parent, name) ==
    /\ last'.op \in {"create", "mkdir"}
    /\ last'.parent = parent
    /\ last'.name = name
    /\ last'.reply.tag \in {"created", "entry"}

----------------------------------------------------------------------------
\* the children of the nodes the engine can reach, as <<parent, name>> pairs
Children == {pn \in (DOMAIN nodes) \X Names : pn[2] \in DOMAIN nodes[pn[1]].children}

ChildIndex(pn) == nodes[pn[1]].children[pn[2]].index

\* every inode number some table or some child holds
KnownIds ==
    DOMAIN nodes \cup DOMAIN attrs \cup DOMAIN files \cup {ChildIndex(pn) : pn \in Children}

\* this step is a create or a mkdir that succeeded
CreatedAny == last'.op \in {"create", "mkdir"} /\ last'.reply.tag \in {"created", "entry"}

(* C13: the inode counter never decreases and no table holds a number      *)
(* above it; the number a successful create or mkdir assigns is the        *)
(* counter after the step, is above the counter before it, so above every  *)
(* number assigned earlier, removed objects included, and is not 1; no two *)
(* children alive together have the same number, and none has the root's.  *)
C13_InodesIncrease ==
    /\ [](/\ \A i \in KnownIds : i <= current_inode
          /\ \A pn \in Children : ChildIndex(pn) # ROOT
          /\ \A pn, qm \in Children : pn # qm => ChildIndex(pn) # ChildIndex(qm))
    /\ [][/\ current_inode' >= current_inode
          /\ CreatedAny =>
                 /\ last'.reply.attr.ino = current_inode'
                 /\ last'.reply.attr.ino > current_inode
                 /\ last'.reply.attr.ino # ROOT
                 /\ last'.reply.attr.ino \notin KnownIds]_vars

\* an object got number 3 after the file numbered 2 had been unlinked
C13_Witness ==
    /\ last.op \in {"create", "mkdir"}
    /\ last.reply.tag \in {"created", "entry"}
    /\ last.reply.attr.ino = 3
    /\ 2 \in DOMAIN files
    /\ 2 \notin DOMAIN attrs

----------------------------------------------------------------------------
\* what readdir replies from offset 0 for a directory that holds nothing
EmptyListing(ino, parent) ==
    [tag |-> "dir",
     entries |->
         <<[ino |-> ino, offset |-> 1, kind |-> Directory, name |-> CURRENT_DIR]>> \o
         (IF parent = NO_PARENT THEN <<>>
          ELSE <<[ino |-> parent, offset |-> 2, kind |-> Directory, name |-> PARENT_DIR]>>)]

(* C14: a readdir from offset 0 of the directory the previous request, a   *)
(* successful mkdir, has created replies exactly "." with the number of    *)
(* the new directory and ".." with the number of its parent; a readdir     *)
(* from offset 0 of the root of an engine that has served no request       *)
(* replies exactly ".".                                                    *)
C14_FreshDirectoryListing ==
    [][(last'.op = "readdir" /\ last'.offset = 0) =>
           /\ (/\ last.op = "mkdir"
               /\ last.reply.tag = "entry"
               /\ last'.ino = last.reply.attr.ino) =>
                  last'.reply = EmptyListing(last'.ino, last.parent)
           /\ (last.op = "new" /\ last'.ino = ROOT) =>
                  last'.reply = EmptyListing(ROOT, NO_PARENT)]_vars

----------------------------------------------------------------------------
\* d is the number of a directory that is a child of some node and holds no name
IsCreatedDirectory(d, name) ==
    \E pn \in Children :
        LET child == nodes[pn[1]].children[pn[2]]
        IN  /\ child.index = d
            /\ child.kind = Directory
            /\ name \notin DOMAIN child.children

\* find_node(parent, name) returns the node numbered ino
Resolves(parent, name, ino) ==
    LET f == find_node(parent, name) IN f.ok /\ f.val.index = ino

(* C15: a create or a mkdir of a new name under a directory that mkdir     *)
(* has created succeeds, and find_node then returns the new child for that *)
(* parent and name.                                                        *)
C15_CreatedDirectoryIsParent ==
    [][\A d \in NsParents, name \in Names :
           (/\ last'.op \in {"create", "mkdir"}
            /\ last'.parent = d
            /\ last'.name = name
            /\ IsCreatedDirectory(d, name)) =>
               /\ last'.reply.tag \in {"created", "entry"}
               /\ \E ino \in Inodes :
                      last'.reply.attr.ino = ino /\ Resolves(d, name, ino)']_vars

----------------------------------------------------------------------------
\* map m1 is map m0 with the one new key k
OneMore(m0, m1, k) ==
    /\ k \notin DOMAIN m0
    /\ DOMAIN m1 = DOMAIN m0 \cup {k}
    /\ \A j \in DOMAIN m0 : m1[j] = m0[j]

(* C16: a create that succeeds gives the new file a number no table and no *)
(* child held; adds one attribute record for it, a regular file of size 0  *)
(* whose four timestamps are equal, which is the record replied; adds one  *)
(* empty buffer for it; adds one child of that name under the parent, with *)
(* that number and that parent; adds one handle, the one replied, mapped   *)
(* to that number; every other entry of the four tables is as it was.      *)
C16_CreateRecords ==
    [][(last'.op = "create" /\ last'.reply.tag = "created") =>
           LET i == last'.reply.attr.ino
               p == last'.parent
               n == last'.name
               h == last'.reply.fh
           IN  /\ i \notin KnownIds
               /\ OneMore(attrs, attrs', i)
               /\ attrs'[i] = last'.reply.attr
               /\ attrs'[i].kind = RegularFile
               /\ attrs'[i].size = 0
               /\ attrs'[i].atime = attrs'[i].mtime
               /\ attrs'[i].mtime = attrs'[i].ctime
               /\ attrs'[i].ctime = attrs'[i].crtime
               /\ OneMore(files, files', i)
               /\ files'[i].data = <<>>
               /\ DOMAIN nodes' = DOMAIN nodes
               /\ \A q \in DOMAIN nodes \ {p} : nodes'[q] = nodes[q]
               /\ [nodes'[p] EXCEPT !.children = nodes[p].children] = nodes[p]
               /\ OneMore(nodes[p].children, nodes'[p].children, n)
               /\ nodes'[p].children[n].index = i
               /\ nodes'[p].children[n].parent = p
               /\ nodes'[p].children[n].kind = RegularFile
               /\ OneMore(open_files, open_files', h)
               /\ open_files'[h] = i]_vars

\* a second file was created, later than the first, next to the first
\* file's record, buffer and handles
C16_Witness ==
    /\ last.op = "create"
    /\ last.reply.tag = "created"
    /\ last.reply.attr.ino = 3
    /\ last.reply.attr.crtime = 1
    /\ 2 \in DOMAIN attrs
    /\ 2 \in DOMAIN files
    /\ Len(files[2].data) > 0
    /\ Cardinality(DOMAIN open_files) >= 2

----------------------------------------------------------------------------
(* C17: a mkdir never changes the handle table, the handle counter or the  *)
(* content store; it replies ENOENT when the parent is not a node, EEXIST  *)
(* when the parent holds the name, and otherwise succeeds: it gives the    *)
(* directory a number nothing held, adds one attribute record for it, of   *)
(* kind directory, size 0 and link count 0, which is the record replied,   *)
(* and adds one child of that name, of kind directory, under the parent.   *)
C17_MkdirRecords ==
    [][last'.op = "mkdir" =>
           LET p == last'.parent
               n == last'.name
           IN  /\ open_files' = open_files
               /\ current_file_descriptor' = current_file_descriptor
               /\ files' = files
               /\ IF p \notin DOMAIN nodes THEN last'.reply = ReplyError(ENOENT)
                  ELSE IF n \in DOMAIN nodes[p].children THEN last'.reply = ReplyError(EEXIST)
                  ELSE /\ last'.reply.tag = "entry"
                       /\ last'.reply.attr.ino \notin KnownIds
                       /\ OneMore(attrs, attrs', last'.reply.attr.ino)
                       /\ attrs'[last'.reply.attr.ino] = last'.reply.attr
                       /\ last'.reply.attr.kind = Directory
                       /\ last'.reply.attr.size = 0
                       /\ last'.reply.attr.nlink = 0
                       /\ OneMore(nodes[p].children, nodes'[p].children, n)
                       /\ nodes'[p].children[n].kind = Directory
                       /\ nodes'[p].children[n].index = last'.reply.attr.ino]_vars

\* a directory was made while a file had a buffer and a handle
C17_Witness ==
    /\ last.op = "mkdir"
    /\ last.reply.tag = "entry"
    /\ open_files # EmptyMap
    /\ files # EmptyMap

----------------------------------------------------------------------------
\* the code each error of the core is replied as
ErrorCodes ==
    {c_int_from(e) : e \in {"NotFound", "AttrsNotFound", "FileNotFound", "EOF", "AlreadyExists"}}

(* C18: every rmdir, rename, link and symlink replies the error ENOSYS,    *)
(* which is none of the codes replied for NotFound, AlreadyExists and EOF, *)
(* and leaves the four tables, the inode counter and the handle counter as *)
(* they were.                                                              *)
C18_Unsupported ==
    [][last'.op \in {"rmdir", "rename", "link", "symlink"} =>
           /\ last'.reply = ReplyError(ENOSYS)
           /\ last'.reply.code \notin ErrorCodes
           /\ tables' = tables
           /\ iter_order' = iter_order
           /\ current_inode' = current_inode
           /\ current_file_descriptor' = current_file_descriptor]_vars

\* an unsupported request was refused while the root held a file
C18_Witness ==
    /\ last.op \in {"rmdir", "rename", "link", "symlink"}
    /\ last.reply = ReplyError(ENOSYS)
    /\ nodes[ROOT].children # EmptyMap
    /\ files # EmptyMap

----------------------------------------------------------------------------
\* this step replied a handle: an open, or a create that succeeded
Handed == last'.op = "open" \/ (last'.op = "create" /\ last'.reply.tag = "created")

(* C19: the handle counter starts at 0 and every live handle is below it;  *)
(* every open succeeds, whether or not the inode has any record; each      *)
(* handle replied, by open or by create, is the counter before the step,   *)
(* which the step raises by one and no other step changes, so handles are  *)
(* 0, 1, 2, ... whatever the inode counter is and whatever was released;   *)
(* an open adds the one mapping from the handle to the inode, also when    *)
(* other handles map to that inode, and changes nothing else.              *)
C19_OpenHandles ==
    /\ current_file_descriptor = 0
    /\ [](\A h \in DOMAIN open_files : h < current_file_descriptor)
    /\ [][/\ IF Handed
             THEN /\ last'.reply.fh = current_file_descriptor
                  /\ current_file_descriptor' = current_file_descriptor + 1
             ELSE current_file_descriptor' = current_file_descriptor
          /\ last'.op = "open" =>
                 /\ last'.reply.tag = "opened"
                 /\ OneMore(open_files, open_files', last'.reply.fh)
                 /\ open_files'[last'.reply.fh] = last'.ino
                 /\ attrs' = attrs
                 /\ nodes' = nodes
                 /\ files' = files
                 /\ current_inode' = current_inode]_vars

\* the third open of an inode that has no record, after the second handle
\* was released and while the first is live, replied handle 2
C19_Witness ==
    /\ last.op = "open"
    /\ last.reply.fh = 2
    /\ last.ino \notin DOMAIN attrs
    /\ DOMAIN open_files = {0, 2}
    /\ open_files[0] = last.ino
    /\ open_files[2] = last.ino

----------------------------------------------------------------------------
(* C20: every release replies ok; afterwards the handle table has no       *)
(* mapping for that handle and every other handle maps to what it mapped   *)
(* to; the attribute table, the tree, the content store and both counters  *)
(* are as they were; a release of a handle that has no mapping changes     *)
(* nothing; a release that repeats the release before it changes nothing.  *)
C20_Release ==
    [][last'.op = "release" =>
           /\ last'.reply = [tag |-> "ok"]
           /\ DOMAIN open_files' = DOMAIN open_files \ {last'.fh}
           /\ \A h \in DOMAIN open_files' : open_files'[h] = open_files[h]
           /\ attrs' = attrs
           /\ nodes' = nodes
           /\ files' = files
           /\ current_inode' = current_inode
           /\ current_file_descriptor' = current_file_descriptor
           /\ last'.fh \notin DOMAIN open_files => open_files' = open_files
           /\ (last.op = "release" /\ last.fh = last'.fh) => UNCHANGED vars]_vars

\* handle 0 of a file was released while handle 1 maps to the same file
C20_Witness ==
    /\ last.op = "release"
    /\ last.fh = 0
    /\ DOMAIN open_files = {1}
    /\ open_files[1] \in DOMAIN files
    /\ current_file_descriptor = 2

----------------------------------------------------------------------------
\* the node records of the directories of the tree: the nodes of the table
\* and the children of kind directory they hold
DirectoryNodes ==
    {nodes[d] : d \in DOMAIN nodes} \cup
    {nodes[pn[1]].children[pn[2]] : pn \in {qm \in Children :
                                       nodes[qm[1]].children[qm[2]].kind = Directory}}

\* the names of the children of a directory, in the order they are iterated
ChildOrder(node) ==
    IF node.children = EmptyMap THEN <<>> ELSE iter_order[node.index]

\* the listing of a directory from offset 0: ".", ".." unless it is the
\* root, then one entry per child
Listing(node) ==
    <<[ino |-> node.index, kind |-> Directory, name |-> CURRENT_DIR]>> \o
    (IF node.index = ROOT THEN <<>>
     ELSE <<[ino |-> node.parent, kind |-> Directory, name |-> PARENT_DIR]>>) \o
    [i \in 1..Len(ChildOrder(node)) |->
        LET c == node.children[ChildOrder(node)[i]]
        IN  [ino |-> c.index, kind |-> c.kind, name |-> ChildOrder(node)[i]]]

\* the entries of a listing from position k on, each with the offset after it
Resumed(listing, k) ==
    [i \in 1..Max(0, Len(listing) - k) |->
        [ino |-> listing[k + i].ino, offset |-> k + i,
         kind |-> listing[k + i].kind, name |-> listing[k + i].name]]

(* C21: a readdir of a directory of the tree, from offset k, replies the   *)
(* entries at positions k, k+1, ... of its listing, each with its position *)
(* plus one as the next offset, where the listing is "." with the          *)
(* directory's number, then ".." with its parent's unless it is the root,  *)
(* then one entry per child, each child once; a readdir of a number that   *)
(* is no directory of the tree replies ENOENT.                             *)
C21_Readdir ==
    [][last'.op = "readdir" =>
           /\ \A node \in DirectoryNodes :
                  node.index = last'.ino =>
                      /\ Len(ChildOrder(node)) = Cardinality(DOMAIN node.children)
                      /\ {ChildOrder(node)[i] : i \in 1..Len(ChildOrder(node))}
                             = DOMAIN node.children
                      /\ last'.reply = [tag |-> "dir",
                                        entries |-> Resumed(Listing(node), last'.offset)]
           /\ (\A node \in DirectoryNodes : node.index # last'.ino) =>
                  last'.reply = ReplyError(ENOENT)]_vars

----------------------------------------------------------------------------
(* C22: a read or a write of an inode that has no buffer or no attribute   *)
(* record replies ENOENT, the code of a failed find_node, and a read or a  *)
(* write of any other inode replies data, a byte count or the EOF error;   *)
(* an inode whose number has been handed out and that lacks a buffer or an *)
(* attribute record, as one that unlink has removed does, lacks it after   *)
(* every step, so every later read or write of it replies ENOENT.          *)
C22_NotFoundAfterRemoval ==
    [][/\ last'.op \in {"read", "write"} =>
              IF HasContent(last'.ino)
              THEN \/ last'.reply.tag \in {"data", "written"}
                   \/ last'.reply = ReplyError(EOF)
              ELSE last'.reply = ReplyError(c_int_from(find_node(NO_PARENT, "a").err))
       /\ \A i \in 2..current_inode : ~HasContent(i) => ~HasContent(i)']_vars

----------------------------------------------------------------------------
\* the inode numbers of the tree: the nodes of the table and their children
TreeIds == DOMAIN nodes \cup {ChildIndex(pn) : pn \in Children}

(* C23: in every reachable state the inodes that have an attribute record  *)
(* are the inodes of the tree, the root among them, together with the      *)
(* inodes that have a content buffer.                                      *)
C23_AttrsMatchTreeAndContent == DOMAIN attrs = TreeIds \cup DOMAIN files

----------------------------------------------------------------------------
(* C24: in every reachable state the root is node 1 with parent 0; every   *)
(* node of the table is stored under its own number; every child has the   *)
(* number of the node that holds it as its parent and the key it is stored *)
(* under as its name; no child has the number of a node of the table and   *)
(* no two children have the same number.                                   *)
C24_TreeShape ==
    /\ ROOT \in DOMAIN nodes
    /\ nodes[ROOT].index = 1
    /\ nodes[ROOT].parent = 0
    /\ \A d \in DOMAIN nodes : nodes[d].index = d
    /\ \A pn \in Children :
           LET child == nodes[pn[1]].children[pn[2]]
           IN  /\ child.parent = nodes[pn[1]].index
               /\ child.name = pn[2]
               /\ child.index \notin DOMAIN nodes
               /\ \A qm \in Children : qm # pn => ChildIndex(qm) # child.index

\* the root holds a file and a directory
C24_Witness ==
    \E n, m \in DOMAIN nodes[ROOT].children :
        /\ nodes[ROOT].children[n].kind = RegularFile
        /\ nodes[ROOT].children[m].kind = Directory

----------------------------------------------------------------------------
(* C25: an unlink that succeeds leaves every handle that maps to an inode  *)
(* other than the one it removes in the handle table, mapped as before.    *)
C25_UnlinkKeepsOtherHandles ==
    [][\A parent \in NsParents, name \in Names :
           Unlinked(parent, name) =>
               \A h \in DOMAIN open_files :
                   open_files[h] # nodes[parent].children[name].index =>
                       /\ h \in DOMAIN open_files'
                       /\ open_files'[h] = open_files[h]]_vars

----------------------------------------------------------------------------
\* find_node(parent, name) returns a directory
IsDirectoryName(parent, name) ==
    LET f == find_node(parent, name) IN f.ok /\ f.val.kind = Directory

(* C26: a name that find_node resolves to a directory resolves to the same *)
(* directory after every step, and an unlink of such a name leaves the     *)
(* four tables as they were.                                               *)
C26_DirectoriesStay ==
    [][\A parent \in NsParents, name \in Names :
           IsDirectoryName(parent, name) =>
               /\ find_node(parent, name)' = find_node(parent, name)
               /\ (/\ last'.op = "unlink"
                   /\ last'.parent = parent
                   /\ last'.name = name) => tables' = tables]_vars

----------------------------------------------------------------------------
(* C27: the inode counter starts at 1; every create and every mkdir, one   *)
(* that replies ENOENT or EEXIST included, raises it by exactly one, and   *)
(* no other request changes it, so it is 1 plus the number of creates and  *)
(* mkdirs so far; the number a successful one assigns is the counter after *)
(* the step.                                                               *)
C27_EveryCreateTakesANumber ==
    /\ current_inode = 1
    /\ [][/\ IF last'.op \in {"create", "mkdir"}
             THEN current_inode' = current_inode + 1
             ELSE current_inode' = current_inode
          /\ CreatedAny => last'.reply.attr.ino = current_inode + 1]_vars

\* the first create or mkdir ever was refused and the counter is 2
C27_Witness ==
    /\ last.op \in {"create", "mkdir"}
    /\ last.reply.tag = "error"
    /\ current_inode = 2

====
